---- MODULE Spec2Model ----
(***************************************************************************)
(* ACPI table discovery of gopher-os (package acpi): the driver session    *)
(* (DriverInit / parseRSDT / mapACPITable / mapRegion and the deferred     *)
(* teardown) and the root pointer scan (probeForACPI / locateRSDT).        *)
(*                                                                         *)
(* Physical memory is a sparse byte map; every address it does not hold    *)
(* reads as zero.  The mapping primitives mapFn / unmapFn and the          *)
(* allocator's ReclaimRegions are external: their results are inputs.      *)
(***************************************************************************)
EXTENDS Integers, Sequences, FiniteSets, TLC

VARIABLES
    mem,            \* physical memory, address -> byte (firmware tables)
    fw,             \* the description the memory image was built from
    pc,             \* position of the running code
    drv,            \* acpiDriver.rsdtAddr / useXSDT
    mappedPages,    \* acpiDriver.mappedPages
    tableAddr,      \* mapACPITable's argument
    tableIdx,       \* 0: root table, i > 0: sdtAddresses[i]
    nEntries,       \* len(sdtAddresses) as made by parseRSDT
    sdtAddresses,   \* the entries read so far
    ret,            \* the value the call returns (DriverInit, validTable)
    pending,        \* pages the deferred range loop has not visited yet
    gotUnmapErr,    \* the deferred function's flag
    mapLog,         \* every mapFn call of the session: [page, err]
    lastRegion,     \* the last mapRegion call: arguments, set before/after, calls
    regionsDone,    \* <<addr, size>> of the mapRegion calls that returned nil
    tablesTried,    \* the arguments of the mapACPITable calls, in order
    entryReads,     \* the sub-table address reads: [addr, width]
    out,            \* the lines written to w: [signature, addr, length]
    unmapCalls,     \* page -> number of unmapFn calls of the deferred function
    unmapErrs,      \* pages whose unmapFn call returned an error
    reclaimCalls,   \* number of allocator.ReclaimRegions calls
    curPtr,         \* locateRSDT's scan pointer
    winMapped,      \* scan-window pages mapped by locateRSDT and not unmapped
    locRet,         \* what locateRSDT returns: [addr, useXSDT, err]
    lastRead        \* the bytes the last scan iteration read: [from, to)

vars == <<mem, fw, pc, drv, mappedPages, tableAddr, tableIdx, nEntries,
          sdtAddresses, ret, pending, gotUnmapErr, mapLog, lastRegion,
          regionsDone, tablesTried, entryReads, out, unmapCalls, unmapErrs,
          reclaimCalls, curPtr, winMapped, locRet, lastRead>>

sessionVars == <<mappedPages, tableAddr, tableIdx, nEntries, sdtAddresses, ret,
                 pending, gotUnmapErr, lastRegion, regionsDone, tablesTried,
                 entryReads, out, unmapErrs, reclaimCalls>>

locateVars == <<curPtr, winMapped, locRet, lastRead>>

----------------------------------------------------------------------------
(* Constants of the program *)

PageSize == 4096

SizeofSdtHeader == 36

NoErr == "nil"

errTableChecksumMismatch == "errTableChecksumMismatch"

\* the errors the external mapping primitive may return
MapErrs == {"errMapNoFrame", "errMapInvalid"}

\* cap on the entries parseRSDT's read loop is followed for
MaxEntries == 4

----------------------------------------------------------------------------
(* Bytes *)

LE32(n) == << n % 256, (n \div 256) % 256, (n \div 65536) % 256,
              (n \div 16777216) % 256 >>

\* (the addresses the images hold are below 2^31: the high dword is zero)
LE64(n) == LE32(n) \o <<0, 0, 0, 0>>

RECURSIVE SumSeq(_)
SumSeq(s) == IF s = <<>> THEN 0 ELSE Head(s) + SumSeq(Tail(s))

Zeros(n) == [i \in 1..n |-> 0]

Place(addr, bytes) == [a \in addr..(addr + Len(bytes) - 1) |-> bytes[a - addr + 1]]

ReadByte(a) == IF a \in DOMAIN mem THEN mem[a] ELSE 0

ReadU32(a) == ReadByte(a) + 256 * ReadByte(a + 1) + 65536 * ReadByte(a + 2)
              + 16777216 * ReadByte(a + 3)

ReadU64(a) ==
    LET lo == ReadU32(a)
        hi == ReadU32(a + 4)
    IN  IF hi = 0 THEN lo ELSE lo + hi * 2^32

----------------------------------------------------------------------------
(* validTable: the 8-bit byte sum of [tablePtr, tablePtr + tableLength) *)

\* the loop running to i <= tableLength
RECURSIVE ChecksumLoopInclusive(_, _, _, _)
ChecksumLoopInclusive(tablePtr, i, tableLength, sum) ==
    IF i <= tableLength
    THEN ChecksumLoopInclusive(tablePtr, i + 1, tableLength,
                               (sum + ReadByte(tablePtr + i)) % 256)
    ELSE sum

RECURSIVE ChecksumLoop(_, _, _, _)
ChecksumLoop(tablePtr, i, tableLength, sum) ==
    IF i < tableLength
    THEN ChecksumLoop(tablePtr, i + 1, tableLength,
                      (sum + ReadByte(tablePtr + i)) % 256)
    ELSE sum

\* a table accepted without summing it
validTableSkipped(tablePtr, tableLength) == TRUE

validTable(tablePtr, tableLength) == ChecksumLoop(tablePtr, 0, tableLength, 0) = 0

----------------------------------------------------------------------------
(* Firmware images for a driver session.  A root table at RootAddrs, whose *)
(* payload is an array of addresses of the tables SubAddr(1), SubAddr(2).  *)

RootAddrs == {4096, 8176}

SubAddr(t) == IF t = 1 THEN 8256 ELSE 16344

SubLen(t) == IF t = 1 THEN 40 ELSE 48

SubSig(t) == IF t = 1 THEN <<65, 80, 73, 67>> ELSE <<70, 65, 67, 80>>

RootSig(xsdt) == IF xsdt THEN <<88, 83, 68, 84>> ELSE <<82, 83, 68, 84>>

EntryWidth(xsdt) == IF xsdt THEN 8 ELSE 4

\* A table of `len` declared bytes: the 36-byte header, then the payload.  The
\* checksum byte (offset 9) makes the sum of the first `len` bytes 0 modulo
\* 256 when `valid`, and 1 otherwise.
TableBytes(sig, len, payload, valid) ==
    LET raw  == sig \o LE32(len) \o <<1, 0>> \o <<71, 79, 80, 72, 69, 82>>
                \o Zeros(8) \o LE32(1) \o LE32(7) \o LE32(3) \o payload
        n    == IF len < Len(raw) THEN len ELSE Len(raw)
        part == SumSeq(SubSeq(raw, 1, n)) % 256
        good == (256 - part) % 256
        cks  == IF n < 10 THEN 0 ELSE IF valid THEN good ELSE (good + 1) % 256
    IN  [raw EXCEPT ![10] = cks]

RECURSIVE EntryBytes(_, _)
EntryBytes(entries, xsdt) ==
    IF entries = <<>> THEN <<>>
    ELSE (IF xsdt THEN LE64(SubAddr(Head(entries))) ELSE LE32(SubAddr(Head(entries))))
         \o EntryBytes(Tail(entries), xsdt)

\* the root table's declared length
RootLen(f) ==
    IF f.short THEN SizeofSdtHeader - 4
    ELSE SizeofSdtHeader + Len(f.entries) * EntryWidth(f.xsdt) + f.pad

Image(f) ==
    Place(f.rootAddr,
          TableBytes(RootSig(f.xsdt), RootLen(f),
                     EntryBytes(f.entries, f.xsdt) \o [i \in 1..f.pad |-> 17 * i],
                     f.rootValid))
    @@ Place(SubAddr(1), TableBytes(SubSig(1), SubLen(1), Zeros(4), f.subValid[1]))
    @@ Place(SubAddr(2), TableBytes(SubSig(2), SubLen(2), [i \in 1..12 |-> i], f.subValid[2]))

EntryLists == {<<>>} \cup {<<a>> : a \in 1..2} \cup {<<a, b>> : a, b \in 1..2}

Firmwares ==
    { f \in [rootAddr : RootAddrs, xsdt : BOOLEAN, entries : EntryLists,
             pad : {0, 3}, rootValid : BOOLEAN, short : BOOLEAN,
             subValid : [1..2 -> BOOLEAN]] :
        /\ f.short => (f.entries = <<>> /\ f.pad = 0)
        /\ \A t \in 1..2 : (\A i \in 1..Len(f.entries) : f.entries[i] # t) => f.subValid[t] }

----------------------------------------------------------------------------
(* mapRegion *)

PageFromAddress(addr) == addr \div PageSize

\* mapFn's answer for this mapRegion call: the page it fails on, with the error
NoFail == [page |-> -1, err |-> NoErr]

\* mapRegion's loop without the lookup in the reservation map
RECURSIVE MapLoopNoLookup(_, _, _, _, _)
MapLoopNoLookup(curPage, lastPage, mapped, calls, fail) ==
    IF curPage > lastPage THEN [mapped |-> mapped, calls |-> calls, err |-> NoErr]
    ELSE IF fail.page = curPage
         THEN [mapped |-> mapped,
               calls  |-> Append(calls, [page |-> curPage, err |-> fail.err]),
               err    |-> fail.err]
    ELSE MapLoopNoLookup(curPage + 1, lastPage, mapped \cup {curPage},
                         Append(calls, [page |-> curPage, err |-> NoErr]), fail)

\* mapRegion's loop recording the page before mapFn is called
RECURSIVE MapLoopRecordsFirst(_, _, _, _, _)
MapLoopRecordsFirst(curPage, lastPage, mapped, calls, fail) ==
    IF curPage > lastPage THEN [mapped |-> mapped, calls |-> calls, err |-> NoErr]
    ELSE IF curPage \in mapped
         THEN MapLoopRecordsFirst(curPage + 1, lastPage, mapped, calls, fail)
    ELSE IF fail.page = curPage
         THEN [mapped |-> mapped \cup {curPage},
               calls  |-> Append(calls, [page |-> curPage, err |-> fail.err]),
               err    |-> fail.err]
    ELSE MapLoopRecordsFirst(curPage + 1, lastPage, mapped \cup {curPage},
                             Append(calls, [page |-> curPage, err |-> NoErr]), fail)

RECURSIVE MapLoop(_, _, _, _, _)
MapLoop(curPage, lastPage, mapped, calls, fail) ==
    IF curPage > lastPage THEN [mapped |-> mapped, calls |-> calls, err |-> NoErr]
    ELSE IF curPage \in mapped
         THEN MapLoop(curPage + 1, lastPage, mapped, calls, fail)
    ELSE IF fail.page = curPage
         THEN [mapped |-> mapped,
               calls  |-> Append(calls, [page |-> curPage, err |-> fail.err]),
               err    |-> fail.err]
    ELSE MapLoop(curPage + 1, lastPage, mapped \cup {curPage},
                 Append(calls, [page |-> curPage, err |-> NoErr]), fail)

RegionFirstPage(startAddr) == PageFromAddress((startAddr \div PageSize) * PageSize)

\* the range ending at the page of startAddr
RegionLastPageFirstOnly(startAddr, size) == PageFromAddress(startAddr)

RegionLastPage(startAddr, size) ==
    PageFromAddress(((startAddr + size + (PageSize - 1)) \div PageSize) * PageSize)

mapRegion(mapped, startAddr, size, fail) ==
    MapLoop(RegionFirstPage(startAddr), RegionLastPage(startAddr, size), mapped, <<>>, fail)

\* the failures mapFn can answer a mapRegion call with
FailChoices(mapped, startAddr, size) ==
    {NoFail} \cup
    [page : (RegionFirstPage(startAddr)..RegionLastPage(startAddr, size)) \ mapped,
     err  : MapErrs]

----------------------------------------------------------------------------
(* The driver session: DriverInit, parseRSDT, mapACPITable, teardown *)

NoResult == [addr |-> 0, useXSDT |-> FALSE, err |-> "none"]

NoRead == [from |-> 0, to |-> 0]

NoRegion == [addr |-> -1, size |-> 0, before |-> {}, after |-> {}, calls |-> 0,
             err |-> NoErr, repeat |-> FALSE]

Init ==
    /\ fw \in Firmwares
    /\ mem = Image(fw)
    /\ drv = [rsdtAddr |-> fw.rootAddr, useXSDT |-> fw.xsdt]
    /\ pc = "init"
    /\ mappedPages = {}
    /\ tableAddr = 0
    /\ tableIdx = 0
    /\ nEntries = 0
    /\ sdtAddresses = <<>>
    /\ ret = NoErr
    /\ pending = {}
    /\ gotUnmapErr = FALSE
    /\ mapLog = <<>>
    /\ lastRegion = NoRegion
    /\ regionsDone = {}
    /\ tablesTried = <<>>
    /\ entryReads = <<>>
    /\ out = <<>>
    /\ unmapCalls = << >>
    /\ unmapErrs = {}
    /\ reclaimCalls = 0
    /\ curPtr = 0
    /\ winMapped = {}
    /\ locRet = NoResult
    /\ lastRead = NoRead

\* parseRSDT returns e: DriverInit's deferred function starts ranging over
\* the pages mapped so far
Return(e, mapped) ==
    /\ ret' = e
    /\ pc' = "unmap"
    /\ pending' = mapped
    /\ gotUnmapErr' = FALSE

\* a mapRegion error turned into the checksum error
MapErrorAsMismatch(e) == errTableChecksumMismatch

\* mapACPITable returns mapRegion's error as it got it
MapError(e) == e

\* every error of a sub-table ends the walk
SkipsEntryNever(e) == FALSE

\* parseRSDT's switch on the error of a sub-table: a checksum mismatch skips the
\* entry, any other error is returned
SkipsEntry(e) == e = errTableChecksumMismatch

\* parseRSDT's handling of an error from mapACPITable
OnTableError(e, mapped) ==
    IF tableIdx = 0 \/ ~SkipsEntry(e)
    THEN Return(e, mapped)
    ELSE /\ pc' = "loop"
         /\ UNCHANGED <<ret, pending, gotUnmapErr>>

RegionRecord(addr, size, r) ==
    [addr |-> addr, size |-> size, before |-> mappedPages, after |-> r.mapped,
     calls |-> Len(r.calls), err |-> r.err, repeat |-> <<addr, size>> \in regionsDone]

\* DriverInit makes the reservation map and calls parseRSDT, which calls
\* mapACPITable(drv.rsdtAddr)
DriverInit ==
    /\ pc = "init"
    /\ mappedPages' = {}
    /\ tableAddr' = drv.rsdtAddr
    /\ tableIdx' = 0
    /\ tablesTried' = Append(tablesTried, drv.rsdtAddr)
    /\ pc' = "mapHeader"
    /\ UNCHANGED locateVars
    /\ UNCHANGED <<mem, fw, drv, nEntries, sdtAddresses, ret, pending, gotUnmapErr,
                   mapLog, lastRegion, regionsDone, entryReads, out, unmapCalls,
                   unmapErrs, reclaimCalls>>

\* mapACPITable, first step: mapRegion(tableAddr, sizeofHeader)
MapHeader ==
    /\ pc = "mapHeader"
    /\ \E fail \in FailChoices(mappedPages, tableAddr, SizeofSdtHeader) :
         LET r == mapRegion(mappedPages, tableAddr, SizeofSdtHeader, fail) IN
         /\ mappedPages' = r.mapped
         /\ mapLog' = mapLog \o r.calls
         /\ lastRegion' = RegionRecord(tableAddr, SizeofSdtHeader, r)
         /\ IF r.err = NoErr
            THEN /\ regionsDone' = regionsDone \cup {<<tableAddr, SizeofSdtHeader>>}
                 /\ pc' = "mapBody"
                 /\ UNCHANGED <<ret, pending, gotUnmapErr>>
            ELSE /\ regionsDone' = regionsDone
                 /\ OnTableError(MapError(r.err), r.mapped)
    /\ UNCHANGED locateVars
    /\ UNCHANGED <<mem, fw, drv, tableAddr, tableIdx, nEntries, sdtAddresses,
                   tablesTried, entryReads, out, unmapCalls, unmapErrs, reclaimCalls>>

\* mapACPITable, second step: mapRegion(tableAddr, header.length)
MapBody ==
    /\ pc = "mapBody"
    /\ LET length == ReadU32(tableAddr + 4) IN
       \E fail \in FailChoices(mappedPages, tableAddr, length) :
         LET r == mapRegion(mappedPages, tableAddr, length, fail) IN
         /\ mappedPages' = r.mapped
         /\ mapLog' = mapLog \o r.calls
         /\ lastRegion' = RegionRecord(tableAddr, length, r)
         /\ IF r.err = NoErr
            THEN /\ regionsDone' = regionsDone \cup {<<tableAddr, length>>}
                 /\ pc' = "validate"
                 /\ UNCHANGED <<ret, pending, gotUnmapErr>>
            ELSE /\ regionsDone' = regionsDone
                 /\ OnTableError(MapError(r.err), r.mapped)
    /\ UNCHANGED locateVars
    /\ UNCHANGED <<mem, fw, drv, tableAddr, tableIdx, nEntries, sdtAddresses,
                   tablesTried, entryReads, out, unmapCalls, unmapErrs, reclaimCalls>>

\* the entry count with the 4-byte shift used for both table forms
EntryCountShift2(length, width) ==
    IF length >= SizeofSdtHeader
    THEN (length - SizeofSdtHeader) \div 4
    ELSE 2^30 - ((SizeofSdtHeader - length + 3) \div 4)

\* len(sdtAddresses): (header.length - uint32(sizeofHeader)) >> shift, the
\* subtraction in 32 bits: for length < sizeofHeader it wraps to
\* 2^32 - (sizeofHeader - length)
EntryCount(length, width) ==
    IF length >= SizeofSdtHeader
    THEN (length - SizeofSdtHeader) \div width
    ELSE (2^30 \div (width \div 4)) - ((SizeofSdtHeader - length + width - 1) \div width)

\* mapACPITable, last step: validTable over the whole table; then the caller.
\* Root table: a mismatch is returned by parseRSDT, otherwise the address array
\* is made.  Sub-table: a mismatch skips the entry, otherwise a line is written.
Validate ==
    /\ pc = "validate"
    /\ LET length == ReadU32(tableAddr + 4)
           ok     == validTable(tableAddr, length)
       IN  IF ~ok
           THEN /\ OnTableError(errTableChecksumMismatch, mappedPages)
                /\ UNCHANGED <<nEntries, out>>
           ELSE IF tableIdx = 0
           THEN /\ nEntries' = EntryCount(length, EntryWidth(drv.useXSDT))
                /\ pc' = "readEntries"
                /\ UNCHANGED <<ret, pending, gotUnmapErr, out>>
           ELSE /\ pc' = "loop"
                /\ out' = Append(out, [signature |-> [i \in 1..4 |-> ReadByte(tableAddr + i - 1)],
                                       addr      |-> tableAddr,
                                       length    |-> length])
                /\ UNCHANGED <<nEntries, ret, pending, gotUnmapErr>>
    /\ UNCHANGED locateVars
    /\ UNCHANGED <<mem, fw, drv, mappedPages, tableAddr, tableIdx, sdtAddresses, mapLog,
                   lastRegion, regionsDone, tablesTried, entryReads, unmapCalls,
                   unmapErrs, reclaimCalls>>

\* one iteration of the loop filling sdtAddresses
ReadEntry ==
    /\ pc = "readEntries"
    /\ Len(sdtAddresses) < nEntries
    /\ Len(sdtAddresses) < MaxEntries
    /\ LET width  == EntryWidth(drv.useXSDT)
           entryPtr == drv.rsdtAddr + SizeofSdtHeader + Len(sdtAddresses) * width
       IN  /\ sdtAddresses' = Append(sdtAddresses,
                                     IF drv.useXSDT THEN ReadU64(entryPtr) ELSE ReadU32(entryPtr))
           /\ entryReads' = Append(entryReads, [addr |-> entryPtr, width |-> width])
    /\ UNCHANGED locateVars
    /\ UNCHANGED <<mem, fw, pc, drv, mappedPages, tableAddr, tableIdx, nEntries, ret,
                   pending, gotUnmapErr, mapLog, lastRegion, regionsDone, tablesTried,
                   out, unmapCalls, unmapErrs, reclaimCalls>>

\* head of the loop over sdtAddresses: mapACPITable(addr) for the next entry,
\* or return nil after the last one
NextEntry ==
    /\ \/ pc = "loop"
       \/ pc = "readEntries" /\ Len(sdtAddresses) = nEntries
    /\ IF tableIdx < Len(sdtAddresses)
       THEN /\ tableIdx' = tableIdx + 1
            /\ tableAddr' = sdtAddresses[tableIdx + 1]
            /\ tablesTried' = Append(tablesTried, sdtAddresses[tableIdx + 1])
            /\ pc' = "mapHeader"
            /\ UNCHANGED <<ret, pending, gotUnmapErr>>
       ELSE /\ Return(NoErr, mappedPages)
            /\ UNCHANGED <<tableIdx, tableAddr, tablesTried>>
    /\ UNCHANGED locateVars
    /\ UNCHANGED <<mem, fw, drv, mappedPages, nEntries, sdtAddresses, mapLog, lastRegion,
                   regionsDone, entryReads, out, unmapCalls, unmapErrs, reclaimCalls>>

\* the range loop left at the first failed unmap
RestAfterUnmapBreak(rest, page, ok) == IF ok THEN rest \ {page} ELSE {}

\* the pages the range loop has still to visit after unmapFn(page): the loop
\* goes on whatever unmapFn returned
RestAfterUnmap(rest, page, ok) == rest \ {page}

\* reclaim whatever the unmaps returned
ShouldReclaimAlways(gotErr) == TRUE

\* the deferred function's test before allocator.ReclaimRegions()
ShouldReclaim(gotErr) == ~gotErr

\* one iteration of the deferred function's range over drv.mappedPages
UnmapPage ==
    /\ pc = "unmap"
    /\ \E page \in pending, ok \in BOOLEAN :
         /\ pending' = RestAfterUnmap(pending, page, ok)
         /\ unmapCalls' = IF page \in DOMAIN unmapCalls
                          THEN [unmapCalls EXCEPT ![page] = @ + 1]
                          ELSE unmapCalls @@ (page :> 1)
         /\ unmapErrs' = IF ok THEN unmapErrs ELSE unmapErrs \cup {page}
         /\ gotUnmapErr' = IF ok THEN gotUnmapErr ELSE TRUE
    /\ UNCHANGED locateVars
    /\ UNCHANGED <<mem, fw, pc, drv, mappedPages, tableAddr, tableIdx, nEntries,
                   sdtAddresses, ret, mapLog, lastRegion, regionsDone, tablesTried,
                   entryReads, out, reclaimCalls>>

\* after the range loop: allocator.ReclaimRegions() unless an unmap failed
Reclaim ==
    /\ pc = "unmap"
    /\ pending = {}
    /\ reclaimCalls' = IF ShouldReclaim(gotUnmapErr) THEN reclaimCalls + 1 ELSE reclaimCalls
    /\ pc' = "done"
    /\ UNCHANGED locateVars
    /\ UNCHANGED <<mem, fw, drv, mappedPages, tableAddr, tableIdx, nEntries,
                   sdtAddresses, ret, pending, gotUnmapErr, mapLog, lastRegion,
                   regionsDone, tablesTried, entryReads, out, unmapCalls, unmapErrs>>

Next ==
    \/ DriverInit
    \/ MapHeader
    \/ MapBody
    \/ Validate
    \/ ReadEntry
    \/ NextEntry
    \/ UnmapPage
    \/ Reclaim

Spec == Init /\ [][Next]_vars

----------------------------------------------------------------------------
(* Properties of the driver session *)

Returned == pc \in {"unmap", "done"}

NoMapFailure == \A i \in 1..Len(mapLog) : mapLog[i].err = NoErr

\* the lines a walk over `entries` writes: the tables with a valid checksum
RECURSIVE ExpectedTables(_, _)
ExpectedTables(entries, f) ==
    IF entries = <<>> THEN <<>>
    ELSE LET t == Head(entries) IN
         (IF f.subValid[t]
          THEN << [signature |-> SubSig(t), addr |-> SubAddr(t), length |-> SubLen(t)] >>
          ELSE <<>>)
         \o ExpectedTables(Tail(entries), f)

\* C1: teardown calls unmap exactly once for each page of the reservation set
\* and for no other page, whatever the walk returned and whether or not an
\* unmap call failed; no unmap call is made before the walk has returned.
C1_TeardownUnmapsEachPageOnce ==
    /\ \A p \in DOMAIN unmapCalls : p \in mappedPages /\ unmapCalls[p] = 1
    /\ ~Returned => DOMAIN unmapCalls = {}
    /\ pc = "done" => DOMAIN unmapCalls = mappedPages

C1_Witness ==
    /\ pc = "done"
    /\ ret \in MapErrs
    /\ Cardinality(mappedPages) >= 4
    /\ unmapErrs # {}
    /\ unmapErrs # mappedPages
    /\ DOMAIN unmapCalls = mappedPages

\* C2: ReclaimRegions is called at most once, only after every unmap call of
\* teardown has been made, and exactly when none of them failed.
C2_ReclaimIffAllUnmapsSucceeded ==
    /\ reclaimCalls <= 1
    /\ reclaimCalls = 1 => /\ pc = "done"
                           /\ pending = {}
                           /\ DOMAIN unmapCalls = mappedPages
                           /\ unmapErrs = {}
    /\ pc = "done" => (reclaimCalls = 1 <=> unmapErrs = {})

C2_Witness ==
    /\ pc = "done"
    /\ reclaimCalls = 1
    /\ ret = errTableChecksumMismatch
    /\ Cardinality(mappedPages) >= 2

C4_MapsOnlyNeededPages ==
    (lastRegion.addr >= 0 /\ lastRegion.size > 0) =>
        \A p \in lastRegion.after \ lastRegion.before :
            /\ PageFromAddress(lastRegion.addr) <= p
            /\ p * PageSize < lastRegion.addr + lastRegion.size

\* C5: with a valid root table and no mapping failure the walk returns nil and
\* has written exactly the sub-tables with a valid checksum, in array order.
C5_ValidTablesReportedInOrder ==
    (Returned /\ fw.rootValid /\ ~fw.short /\ NoMapFailure) =>
        /\ ret = NoErr
        /\ out = ExpectedTables(fw.entries, fw)
        /\ Len(tablesTried) = 1 + Len(fw.entries)

C5_Witness ==
    /\ pc = "done"
    /\ fw.entries = <<2, 1>>
    /\ ~fw.subValid[2]
    /\ fw.subValid[1]
    /\ ret = NoErr
    /\ Len(out) = 1
    /\ out[1].addr = SubAddr(1)

\* C6: a checksum mismatch on the root table is fatal: the walk returns
\* errTableChecksumMismatch, reads no entry, maps no sub-table, writes nothing.
C6_RootMismatchFatal ==
    ~fw.rootValid =>
        /\ entryReads = <<>>
        /\ out = <<>>
        /\ Len(tablesTried) <= 1
        /\ \A i \in 1..Len(mapLog) :
              mapLog[i].page \in RegionFirstPage(drv.rsdtAddr)
                                   ..RegionLastPage(drv.rsdtAddr, RootLen(fw))
        /\ (Returned /\ NoMapFailure) => ret = errTableChecksumMismatch

C6_Witness ==
    /\ pc = "done"
    /\ ~fw.rootValid
    /\ fw.entries = <<1, 2>>
    /\ ret = errTableChecksumMismatch
    /\ mapLog # <<>>

\* C7: a mapping failure ends the walk with mapFn's error: the tables tried are
\* the root and the entries up to the failing one, the lines written are the
\* valid sub-tables before it, and no map call follows the failing one.
C7_MapFailureAborts ==
    ~NoMapFailure =>
        LET k == Len(tablesTried) - 1 IN
        /\ Returned
        /\ mapLog[Len(mapLog)].err # NoErr
        /\ \A i \in 1..(Len(mapLog) - 1) : mapLog[i].err = NoErr
        /\ ret = mapLog[Len(mapLog)].err
        /\ k \in 0..Len(fw.entries)
        /\ tablesTried = <<fw.rootAddr>> \o [i \in 1..k |-> SubAddr(fw.entries[i])]
        /\ out = IF k = 0 THEN <<>> ELSE ExpectedTables(SubSeq(fw.entries, 1, k - 1), fw)

C7_Witness ==
    /\ pc = "done"
    /\ ret \in MapErrs
    /\ Len(tablesTried) = 3
    /\ Len(out) = 1

\* C8: for a root table of declared length >= the header size the walker reads
\* floor((length - 36) / 8) addresses (extended) or floor((length - 36) / 4),
\* at consecutive offsets right after the header.
C8_EntryCountAndOffsets ==
    ~fw.short =>
        LET width == IF fw.xsdt THEN 8 ELSE 4
            count == (RootLen(fw) - SizeofSdtHeader) \div width
        IN  /\ Len(entryReads) <= count
            /\ \A i \in 1..Len(entryReads) :
                  entryReads[i] = [addr  |-> fw.rootAddr + SizeofSdtHeader + (i - 1) * width,
                                   width |-> width]
            /\ (tableIdx > 0 \/ pc = "loop" \/ (Returned /\ ret = NoErr))
                  => Len(entryReads) = count

C8_Witness ==
    /\ pc = "done"
    /\ fw.xsdt
    /\ RootLen(fw) = SizeofSdtHeader + 16
    /\ Len(entryReads) = 2
    /\ entryReads[2].addr = fw.rootAddr + SizeofSdtHeader + 8

----------------------------------------------------------------------------
(* probeForACPI / locateRSDT: the scan of [rsdpLocationLow, rsdpLocationHi] *)

rsdpLocationLow == 917504

rsdpLocationHi == 1048575

rsdpRevisionACPI1 == 0

rsdtSignature == <<82, 83, 68, 32, 80, 84, 82, 32>>

errMissingRSDP == "errMissingRSDP"

\* unsafe.Sizeof(rsdpDescriptor{}): 8 + 1 + 6 + 1 + 4
SizeofRsdpDescriptor == 20

\* unsafe.Sizeof(rsdpDescriptor2{}) on amd64: 20 + 4 + 8 + 1 + 3 = 36, rounded
\* up to the 8-byte alignment of xsdtAddr
SizeofRsdpDescriptor2 == 40

WindowPages == PageFromAddress(rsdpLocationLow)..PageFromAddress(rsdpLocationHi)

NoDriver == [rsdtAddr |-> -1, useXSDT |-> FALSE]

(* Scan-window images: three candidate slots, each empty or holding a root  *)
(* pointer of one of these kinds:                                           *)
(*   badsig      the signature differs in its last byte                     *)
(*   v1ok/v1bad  revision 0, the 20 bytes sum to 0 / to 1                   *)
(*   v2ok        revision 2, declared length 36, the 36 and the 40 bytes    *)
(*               sum to 0                                                   *)
(*   v2lenonly   revision 2, the 36 declared bytes sum to 0, the 40 do not  *)
(*   v2sizeonly  revision 2, the 40 bytes sum to 0, the 36 declared do not  *)
(*   v2bad       revision 2, neither sums to 0                              *)

SlotAddr(n) == IF n = 1 THEN rsdpLocationLow
               ELSE IF n = 2 THEN rsdpLocationLow + 64
               ELSE rsdpLocationHi - 15

RsdtAddrOf(n) == PageSize * n

XsdtAddrOf(n) == PageSize * (n + 4)

Kinds == {"none", "badsig", "v1ok", "v1bad", "v2ok", "v2lenonly", "v2sizeonly", "v2bad"}

IsV2(kind) == kind \in {"v2ok", "v2lenonly", "v2sizeonly", "v2bad"}

RsdpBytes(kind, n) ==
    LET sig   == IF kind = "badsig" THEN [rsdtSignature EXCEPT ![8] = 88] ELSE rsdtSignature
        rev   == IF IsV2(kind) THEN 2 ELSE 0
        v1raw == sig \o <<0>> \o <<66, 79, 67, 72, 83, 32>> \o <<rev>> \o LE32(RsdtAddrOf(n))
        want1 == IF kind = "v1bad" THEN 1 ELSE 0
        cks   == (256 + want1 - (SumSeq(v1raw) % 256)) % 256
        v1    == [v1raw EXCEPT ![9] = cks]
        v2raw == v1 \o LE32(36) \o LE64(XsdtAddrOf(n)) \o <<0, 0, 0, 0>>
        want2 == IF kind \in {"v2ok", "v2lenonly"} THEN 0
                 ELSE IF kind = "v2sizeonly" THEN 255 ELSE 1
        ext   == (256 + want2 - (SumSeq(v2raw) % 256)) % 256
        tail4 == IF kind \in {"v2lenonly", "v2sizeonly"} THEN <<1, 0, 0, 0>> ELSE <<0, 0, 0, 0>>
    IN  IF kind = "none" THEN <<>>
        ELSE IF IsV2(kind) THEN [v2raw EXCEPT ![33] = ext] \o tail4
        ELSE v1 \o <<5>>

WindowImage(f) ==
    Place(SlotAddr(1), RsdpBytes(f.slots[1], 1))
    @@ Place(SlotAddr(2), RsdpBytes(f.slots[2], 2))
    @@ Place(SlotAddr(3), RsdpBytes(f.slots[3], 3))

\* the kinds locateRSDT passes over
Rejected == {"none", "badsig", "v1bad", "v2bad", "v2lenonly"}

Windows ==
    { f \in [slots : [1..3 -> Kinds]] :
        f.slots[3] # "none" => (f.slots[1] = "none" /\ f.slots[2] \in {"none", "v2lenonly"}) }

InitLocate ==
    /\ fw \in Windows
    /\ mem = WindowImage(fw)
    /\ drv = NoDriver
    /\ pc = "locMap"
    /\ mappedPages = {}
    /\ tableAddr = 0
    /\ tableIdx = 0
    /\ nEntries = 0
    /\ sdtAddresses = <<>>
    /\ ret = NoErr
    /\ pending = {}
    /\ gotUnmapErr = FALSE
    /\ mapLog = <<>>
    /\ lastRegion = NoRegion
    /\ regionsDone = {}
    /\ tablesTried = <<>>
    /\ entryReads = <<>>
    /\ out = <<>>
    /\ unmapCalls = << >>
    /\ unmapErrs = {}
    /\ reclaimCalls = 0
    /\ curPtr = 0
    /\ winMapped = {}
    /\ locRet = NoResult
    /\ lastRead = NoRead

\* the loop identity-mapping the window: mapFn for every page from the first
\* to the last, left at the first error
RECURSIVE WindowMapLoop(_, _, _, _)
WindowMapLoop(curPage, mapped, calls, fail) ==
    IF curPage > PageFromAddress(rsdpLocationHi)
    THEN [mapped |-> mapped, calls |-> calls, err |-> NoErr]
    ELSE IF fail.page = curPage
         THEN [mapped |-> mapped,
               calls  |-> Append(calls, [page |-> curPage, err |-> fail.err]),
               err    |-> fail.err]
    ELSE WindowMapLoop(curPage + 1, mapped \cup {curPage},
                       Append(calls, [page |-> curPage, err |-> NoErr]), fail)

\* locateRSDT sets up the temporary mapping; an error of mapFn is returned
LocMapWindow ==
    /\ pc = "locMap"
    /\ \E fail \in {NoFail} \cup [page : WindowPages, err : MapErrs] :
         LET r == WindowMapLoop(PageFromAddress(rsdpLocationLow), {}, <<>>, fail) IN
         /\ winMapped' = r.mapped
         /\ mapLog' = r.calls
         /\ IF r.err = NoErr
            THEN /\ pc' = "locScan"
                 /\ curPtr' = rsdpLocationLow
                 /\ locRet' = locRet
            ELSE /\ pc' = "locUnmap"
                 /\ curPtr' = curPtr
                 /\ locRet' = [addr |-> 0, useXSDT |-> FALSE, err |-> r.err]
    /\ UNCHANGED <<mem, fw, drv, unmapCalls, lastRead>>
    /\ UNCHANGED sessionVars

\* number of leading bytes at ptr equal to rsdtSignature, from index i
RECURSIVE SignatureMatch(_, _)
SignatureMatch(ptr, i) ==
    IF i > Len(rsdtSignature) THEN i - 1
    ELSE IF ReadByte(ptr + i - 1) # rsdtSignature[i] THEN i - 1
    ELSE SignatureMatch(ptr, i + 1)

\* the root address taken from a V1 candidate, read as an extended one
AcceptV1AsExtended(ptr) ==
    [addr |-> ReadU64(ptr + 24), useXSDT |-> TRUE, err |-> NoErr]

\* return uintptr(rsdp.rsdtAddr), false, nil
AcceptV1(ptr) ==
    [addr |-> ReadU32(ptr + 16), useXSDT |-> FALSE, err |-> NoErr]

\* return uintptr(rsdp2.xsdtAddr), true, nil
AcceptV2(ptr) ==
    [addr |-> ReadU64(ptr + 24), useXSDT |-> TRUE, err |-> NoErr]

\* the length validTable is called with for a candidate of this revision
CheckedLength(revision) ==
    IF revision = rsdpRevisionACPI1 THEN SizeofRsdpDescriptor ELSE SizeofRsdpDescriptor2

\* a checksum failure ending the scan with errMissingRSDP
ChecksumFailureEndsScan(ptr, length) ==
    [found  |-> TRUE,
     result |-> [addr |-> 0, useXSDT |-> FALSE, err |-> errMissingRSDP],
     readTo |-> ptr + length]

\* `continue` after a failed validTable: the scan goes on with the next block
ChecksumFailure(ptr, length) ==
    [found |-> FALSE, result |-> NoResult, readTo |-> ptr + length]

\* what one iteration of the scan loop does at ptr:
\* [found, result, readTo]; readTo is the end of the bytes it read
ScanCandidate(ptr) ==
    LET matched  == SignatureMatch(ptr, 1)
        revision == ReadByte(ptr + 15)
        length   == CheckedLength(revision)
    IN  IF matched < Len(rsdtSignature)
        THEN [found |-> FALSE, result |-> NoResult, readTo |-> ptr + matched + 1]
        ELSE IF ~validTable(ptr, length)
        THEN ChecksumFailure(ptr, length)
        ELSE [found  |-> TRUE,
              result |-> IF revision = rsdpRevisionACPI1 THEN AcceptV1(ptr) ELSE AcceptV2(ptr),
              readTo |-> ptr + length]

\* one iteration of the scan loop
ScanStep ==
    /\ pc = "locScan"
    /\ curPtr < rsdpLocationHi
    /\ LET c == ScanCandidate(curPtr) IN
       /\ lastRead' = [from |-> curPtr, to |-> c.readTo]
       /\ IF c.found
          THEN /\ locRet' = c.result
               /\ pc' = "locUnmap"
               /\ curPtr' = curPtr
          ELSE /\ locRet' = locRet
               /\ pc' = pc
               /\ curPtr' = curPtr + 16
    /\ UNCHANGED <<mem, fw, drv, mapLog, unmapCalls, winMapped>>
    /\ UNCHANGED sessionVars

\* an iteration that reads a byte of a page locateRSDT has not mapped may
\* fault instead
ScanFault ==
    /\ pc = "locScan"
    /\ curPtr < rsdpLocationHi
    /\ LET c == ScanCandidate(curPtr) IN
       /\ \E a \in {curPtr, c.readTo - 1} : PageFromAddress(a) \notin winMapped
       /\ lastRead' = [from |-> curPtr, to |-> c.readTo]
    /\ pc' = "fault"
    /\ UNCHANGED <<mem, fw, drv, mapLog, unmapCalls, winMapped, curPtr, locRet>>
    /\ UNCHANGED sessionVars

\* the scan left the window without a valid root pointer
ScanExhausted ==
    /\ pc = "locScan"
    /\ curPtr >= rsdpLocationHi
    /\ locRet' = [addr |-> 0, useXSDT |-> FALSE, err |-> errMissingRSDP]
    /\ pc' = "locUnmap"
    /\ UNCHANGED <<mem, fw, drv, mapLog, unmapCalls, winMapped, curPtr, lastRead>>
    /\ UNCHANGED sessionVars

\* the cleanup loop stopping before the last page of the window
CleanupPagesExclusive ==
    PageFromAddress(rsdpLocationLow)..(PageFromAddress(rsdpLocationHi) - 1)

\* the pages the deferred cleanup loop calls unmapFn for
CleanupPages == PageFromAddress(rsdpLocationLow)..PageFromAddress(rsdpLocationHi)

\* the deferred cleanup: unmapFn for every page of the window, its result
\* dropped; `failed` are the pages unmapFn fails on
LocUnmapWindow ==
    /\ pc = "locUnmap"
    /\ \E failed \in {{}, {PageFromAddress(rsdpLocationLow)}, {PageFromAddress(rsdpLocationHi)}} :
         /\ winMapped' = (winMapped \ CleanupPages) \cup (winMapped \cap failed)
         /\ unmapErrs' = failed \cap CleanupPages
    /\ unmapCalls' = [p \in CleanupPages |-> 1]
    /\ pc' = "locReturned"
    /\ UNCHANGED <<mem, fw, drv, mapLog, curPtr, locRet, lastRead>>
    /\ UNCHANGED <<mappedPages, tableAddr, tableIdx, nEntries, sdtAddresses, ret,
                   pending, gotUnmapErr, lastRegion, regionsDone, tablesTried,
                   entryReads, out, reclaimCalls>>

\* a driver made from whatever locateRSDT returned
probeForACPINoErrCheck(res) == [rsdtAddr |-> res.addr, useXSDT |-> res.useXSDT]

\* probeForACPI's result for what locateRSDT returned
probeForACPI(res) ==
    IF res.err = NoErr
    THEN [rsdtAddr |-> res.addr, useXSDT |-> res.useXSDT]
    ELSE NoDriver

\* probeForACPI: a driver with what locateRSDT returned, or nil on any error
ProbeReturn ==
    /\ pc = "locReturned"
    /\ drv' = probeForACPI(locRet)
    /\ pc' = "probed"
    /\ UNCHANGED <<mem, fw, mapLog, unmapCalls, curPtr, winMapped, locRet, lastRead>>
    /\ UNCHANGED sessionVars

NextLocate ==
    \/ LocMapWindow
    \/ ScanStep
    \/ ScanFault
    \/ ScanExhausted
    \/ LocUnmapWindow
    \/ ProbeReturn

SpecLocate == InitLocate /\ [][NextLocate]_vars

----------------------------------------------------------------------------
(* Properties of locateRSDT *)

LocateReturned == pc \in {"locReturned", "probed"}

\* the first slot whose kind is not in S, 0 if there is none
FirstSlotNotIn(f, S) ==
    IF \E n \in 1..3 : f.slots[n] \notin S
    THEN CHOOSE n \in 1..3 : f.slots[n] \notin S /\ \A m \in 1..(n - 1) : f.slots[m] \in S
    ELSE 0

C10_ExtendedChecksumOverDeclaredLength ==
    (LocateReturned /\ NoMapFailure) =>
        \A n \in 1..3 :
            ( /\ fw.slots[n] \in {"v2ok", "v2lenonly"}
              /\ \A m \in 1..(n - 1) : fw.slots[m] \in {"none", "badsig", "v1bad", "v2bad"} )
            => locRet = [addr |-> XsdtAddrOf(n), useXSDT |-> TRUE, err |-> NoErr]

\* what locateRSDT returns for the candidate in slot n (0: none)
ExpectedResult(f, n) ==
    IF n = 0 THEN [addr |-> 0, useXSDT |-> FALSE, err |-> errMissingRSDP]
    ELSE IF IsV2(f.slots[n])
    THEN [addr |-> XsdtAddrOf(n), useXSDT |-> TRUE, err |-> NoErr]
    ELSE [addr |-> RsdtAddrOf(n), useXSDT |-> FALSE, err |-> NoErr]

LocMappedOk == { mapLog[i].page : i \in { j \in 1..Len(mapLog) : mapLog[j].err = NoErr } }

----------------------------------------------------------------------------
(* validTable on its own: byte buffers in memory, between two other bytes *)

\* longest buffer summed
MaxBufLen == 3

ByteSamples == {0, 1, 127, 128, 255}

BufAddrs == {16, 4094}

Buffers == UNION { [1..n -> ByteSamples] : n \in 0..MaxBufLen }

BufferImage(addr, bytes) == Place(addr - 1, <<9>> \o bytes \o <<9>>)

InitValid ==
    /\ fw \in [addr : BufAddrs, bytes : Buffers, prev : {"none"}]
    /\ mem = BufferImage(fw.addr, fw.bytes)
    /\ pc = "vtCall"
    /\ ret = FALSE
    /\ drv = NoDriver
    /\ mappedPages = {}
    /\ tableAddr = 0
    /\ tableIdx = 0
    /\ nEntries = 0
    /\ sdtAddresses = <<>>
    /\ pending = {}
    /\ gotUnmapErr = FALSE
    /\ mapLog = <<>>
    /\ lastRegion = NoRegion
    /\ regionsDone = {}
    /\ tablesTried = <<>>
    /\ entryReads = <<>>
    /\ out = <<>>
    /\ unmapCalls = << >>
    /\ unmapErrs = {}
    /\ reclaimCalls = 0
    /\ curPtr = 0
    /\ winMapped = {}
    /\ locRet = NoResult
    /\ lastRead = NoRead

\* validTable(addr, len(bytes))
ValidTableCall ==
    /\ pc = "vtCall"
    /\ ret' = validTable(fw.addr, Len(fw.bytes))
    /\ pc' = "vtDone"
    /\ UNCHANGED <<mem, fw, drv, mappedPages, tableAddr, tableIdx, nEntries, sdtAddresses,
                   pending, gotUnmapErr, mapLog, lastRegion, regionsDone, tablesTried,
                   entryReads, out, unmapCalls, unmapErrs, reclaimCalls>>
    /\ UNCHANGED locateVars

\* one byte of the buffer is changed; prev keeps what validTable returned
ChangeByte ==
    /\ pc = "vtDone"
    /\ \E i \in 1..Len(fw.bytes) : \E v \in ByteSamples \ {fw.bytes[i]} :
         /\ mem' = [mem EXCEPT ![fw.addr + i - 1] = v]
         /\ fw' = [fw EXCEPT !.bytes = [fw.bytes EXCEPT ![i] = v],
                             !.prev = IF ret THEN "valid" ELSE "invalid"]
    /\ pc' = "vtCall"
    /\ UNCHANGED <<ret, drv, mappedPages, tableAddr, tableIdx, nEntries, sdtAddresses,
                   pending, gotUnmapErr, mapLog, lastRegion, regionsDone, tablesTried,
                   entryReads, out, unmapCalls, unmapErrs, reclaimCalls>>
    /\ UNCHANGED locateVars

NextValid ==
    \/ ValidTableCall
    \/ ChangeByte

SpecValid == InitValid /\ [][NextValid]_vars

\* C14: validTable returns true exactly when the bytes of
\* [address, address + length) sum to zero modulo 256 (length 0: true); after
\* one byte of a passing range is changed it returns false; memory is as it was.
C14_ValidIffByteSumZero ==
    pc = "vtDone" =>
        /\ ret = (SumSeq(fw.bytes) % 256 = 0)
        /\ fw.bytes = <<>> => ret
        /\ fw.prev = "valid" => ~ret
        /\ mem = BufferImage(fw.addr, fw.bytes)

C14_Witness ==
    /\ pc = "vtDone"
    /\ fw.prev = "valid"
    /\ fw.bytes = <<255, 1, 1>>
    /\ ~ret

----------------------------------------------------------------------------
(* Further properties of the driver session *)

\* the pages of the session's successful mapFn calls
MappedOk == { mapLog[i].page : i \in { j \in 1..Len(mapLog) : mapLog[j].err = NoErr } }

\* C15: a mapFn error ends mapRegion at once and is returned as it is: no map
\* call follows, the failing page is not reserved, the pages reserved before
\* stay; the reservation map is always the set of pages mapFn mapped.
C15_ReserveStopsAtMapFailure ==
    /\ mappedPages = MappedOk
    /\ lastRegion.before \subseteq lastRegion.after
    /\ lastRegion.after \subseteq mappedPages
    /\ lastRegion.err # NoErr =>
          LET last == mapLog[Len(mapLog)] IN
          /\ lastRegion.calls >= 1
          /\ last.err = lastRegion.err
          /\ lastRegion.err \in MapErrs
          /\ last.page \notin mappedPages
          /\ \A i \in 1..(Len(mapLog) - 1) : mapLog[i].err = NoErr
          /\ lastRegion.after = lastRegion.before
                \cup { mapLog[i].page : i \in (Len(mapLog) - lastRegion.calls + 1)..(Len(mapLog) - 1) }
          /\ mappedPages = lastRegion.after

C15_Witness ==
    /\ lastRegion.err \in MapErrs
    /\ lastRegion.calls = 2
    /\ Cardinality(lastRegion.before) >= 2
    /\ Cardinality(lastRegion.after) = Cardinality(lastRegion.before) + 1
    /\ pc = "unmap"

\* the pages holding a byte of [addr, addr + n)
BytePages(addr, n) ==
    IF n = 0 THEN {} ELSE PageFromAddress(addr)..PageFromAddress(addr + n - 1)

\* C16: the bytes mapACPITable reads lie in reserved pages that have not been
\* unmapped: header.length is read with the header's pages reserved, validTable
\* runs with the pages of [address, address + length) reserved, and no unmapFn
\* call is made before parseRSDT has returned.
C16_TableReadsInReservedPages ==
    /\ pc = "mapBody" => BytePages(tableAddr, SizeofSdtHeader) \subseteq mappedPages
    /\ pc = "validate" =>
          /\ BytePages(tableAddr, SizeofSdtHeader) \subseteq mappedPages
          /\ BytePages(tableAddr, ReadU32(tableAddr + 4)) \subseteq mappedPages
    /\ ~Returned => (DOMAIN unmapCalls = {} /\ pending = {})

C16_Witness ==
    /\ pc = "validate"
    /\ tableAddr = SubAddr(2)
    /\ BytePages(tableAddr, ReadU32(tableAddr + 4)) = {3, 4}
    /\ {3, 4} \subseteq mappedPages
    /\ DOMAIN unmapCalls = {}

\* C18: every sub-table address read lies in the root table's declared range
\* [address + 36, address + length); a declared length below the header size
\* gives no entry.
C18_EntryReadsInsideRootTable ==
    /\ \A i \in 1..Len(entryReads) :
          /\ entryReads[i].addr >= fw.rootAddr + SizeofSdtHeader
          /\ entryReads[i].addr + entryReads[i].width <= fw.rootAddr + RootLen(fw)
    /\ fw.short => (entryReads = <<>> /\ (pc \notin {"init", "mapHeader", "mapBody", "validate"} => nEntries = 0))

----------------------------------------------------------------------------
(* Further properties of locateRSDT *)

\* C17: every byte a scan iteration reads (signature, revision, the bytes
\* validTable sums) lies inside the window [rsdpLocationLow, rsdpLocationHi],
\* in a page locateRSDT mapped.
C17_ScanReadsInsideWindow ==
    lastRead # NoRead =>
        /\ rsdpLocationLow <= lastRead.from
        /\ lastRead.to <= rsdpLocationHi + 1
        /\ PageFromAddress(lastRead.to - 1) \in LocMappedOk

\* C19: unmapFn is called only for pages locateRSDT mapped successfully; after
\* a mapFn failure the failing page and the pages after it are not unmapped.
C19_UnmapsOnlyPagesItMapped ==
    \A p \in DOMAIN unmapCalls : p \in LocMappedOk

====
